---- MODULE Spec2Model ----
(***************************************************************************)
(* Model of streamlit_app.py: the per-session state kept in               *)
(* st.session_state (history, candidates, pending_selection, last_usage,  *)
(* auto_preview), the handlers that change it (chat_input, the three      *)
(* selection buttons, the regenerate button, the reset button, the        *)
(* auto-preview toggle, the API key input) and the pure splitting done by *)
(* generate_three_answers.                                                *)
(*                                                                         *)
(* Text is a sequence of tokens.  A token is one of the three literal     *)
(* markers, a whitespace character or another character.  Every marker    *)
(* starts with "[" and contains no other "[", so two marker occurrences   *)
(* never overlap and Python's substring search for a marker is a search   *)
(* for the marker token.                                                   *)
(*                                                                         *)
(* One action is one script run triggered by one widget event; the        *)
(* st.rerun() that ends a handler starts a run in which no widget fires   *)
(* and no session field changes.                                           *)
(***************************************************************************)
EXTENDS Integers, Sequences, FiniteSets, TLC

VARIABLES ss, typed_key, resp, parsed, lastOp

vars == <<ss, typed_key, resp, parsed, lastOp>>

-----------------------------------------------------------------------------
(* Bounds *)

MaxHistory == 4

MaxLen == 5

-----------------------------------------------------------------------------
(* Tokens and texts *)

KR_SHORT == "[KR_SHORT]"

KR_LONG == "[KR_LONG]"

EN == "[EN]"

NoLabel == "None"

Markers == {KR_SHORT, KR_LONG, EN}

Whitespace == {" ", "\n"}

Tokens == Markers \cup {" ", "a", "b"}

Labels == {"kr_short", "kr_long", "en"}

EmptyDict == [k \in {} |-> <<>>]

NoUsage == [present |-> FALSE, total_tokens |-> 0]

RECURSIVE SeqsUpTo(_, _)
SeqsUpTo(S, n) ==
    IF n = 0 THEN {<<>>}
    ELSE LET shorter == SeqsUpTo(S, n - 1)
         IN  shorter \cup {Append(s, t) : s \in {x \in shorter : Len(x) = n - 1}, t \in S}

(* str.strip(): drop leading, then trailing, whitespace *)
RECURSIVE LStrip(_)
LStrip(s) ==
    IF s = <<>> THEN <<>>
    ELSE IF Head(s) \in Whitespace THEN LStrip(Tail(s)) ELSE s

RECURSIVE RStrip(_)
RStrip(s) ==
    IF s = <<>> THEN <<>>
    ELSE IF s[Len(s)] \in Whitespace THEN RStrip(SubSeq(s, 1, Len(s) - 1)) ELSE s

Strip(s) == RStrip(LStrip(s))

(* label in text *)
Contains(s, label) == \E i \in 1..Len(s) : s[i] = label

(* text.split(label, 1)[1], for a text that contains label *)
RECURSIVE SplitAfter(_, _)
SplitAfter(s, label) ==
    IF s = <<>> THEN <<>>
    ELSE IF Head(s) = label THEN Tail(s) ELSE SplitAfter(Tail(s), label)

(* text.split(label, 1)[0] *)
RECURSIVE SplitBefore(_, _)
SplitBefore(s, label) ==
    IF s = <<>> THEN <<>>
    ELSE IF Head(s) = label THEN <<>> ELSE <<Head(s)>> \o SplitBefore(Tail(s), label)

(* dict.get(key, "") *)
Get(d, key) == IF key \in DOMAIN d THEN d[key] ELSE <<>>

(* any(d.values()) *)
AnyValue(d) == \E k \in DOMAIN d : d[k] # <<>>

-----------------------------------------------------------------------------
(* generate_three_answers *)

(* (resp.choices[0].message.content or "").strip() *)
Full(r) == Strip(IF r.isNone THEN <<>> ELSE r.content)

part(full, label_from, label_to) ==
    IF ~Contains(full, label_from) THEN <<>>
    ELSE LET seg == SplitAfter(full, label_from)
         IN  IF label_to # NoLabel /\ Contains(seg, label_to)
             THEN Strip(SplitBefore(seg, label_to))
             ELSE Strip(seg)

(* the whole-text fallback left out *)
NothingParsed_never(kr_short, kr_long, en_ans) == FALSE

NothingParsed(kr_short, kr_long, en_ans) ==
    ~(kr_short # <<>> \/ kr_long # <<>> \/ en_ans # <<>>)

usage_dict(r) == r.usage

generate_three_answers(r) ==
    LET full     == Full(r)
        kr_short == part(full, KR_SHORT, KR_LONG)
        kr_long  == part(full, KR_LONG, EN)
        en_ans   == part(full, EN, NoLabel)
        first    == IF NothingParsed(kr_short, kr_long, en_ans) THEN full ELSE kr_short
    IN  [cands |-> [kr_short |-> first, kr_long |-> kr_long, en |-> en_ans],
         usage |-> usage_dict(r)]

-----------------------------------------------------------------------------
(* Session state and the handlers' effects on it *)

Message(role, content) == [role |-> role, content |-> content]

PreviewPrefix == <<"(preview)", "\n">>

NoResponse == [isNone |-> TRUE, content |-> <<>>, usage |-> NoUsage]

InitialSession ==
    [history |-> <<>>, candidates |-> EmptyDict, pending_selection |-> FALSE,
     last_usage |-> NoUsage, auto_preview |-> TRUE]

(* (secret_key or env_key or typed_key).strip(), with no secret and no
   environment key configured *)
openai_api_key == Strip(typed_key)

(* the script runs past st.stop() *)
HasKey == openai_api_key # <<>>

(* guard of the candidate section *)
ShowCandidates(s) == s.pending_selection /\ AnyValue(s.candidates)

toggle_changed(s) == [s EXCEPT !.auto_preview = ~@]

(* pending_selection left as it was *)
reset_clicked_keeps_pending(s) ==
    [s EXCEPT !.history = <<>>, !.candidates = EmptyDict, !.last_usage = NoUsage]

reset_clicked(s) ==
    [s EXCEPT !.history = <<>>, !.candidates = EmptyDict,
              !.pending_selection = FALSE, !.last_usage = NoUsage]

(* every button appends the kr_short text *)
select_clicked_first_label(s, key) ==
    [s EXCEPT !.history = Append(@, Message("assistant", Get(s.candidates, "kr_short"))),
              !.pending_selection = FALSE, !.candidates = EmptyDict]

(* the chosen text replaces the last entry when that entry is an assistant
   message *)
select_clicked_overwrites(s, key) ==
    LET h == s.history
        m == Message("assistant", Get(s.candidates, key))
    IN  [s EXCEPT !.history = IF h # <<>> /\ h[Len(h)].role = "assistant"
                              THEN [h EXCEPT ![Len(h)] = m]
                              ELSE Append(h, m),
                  !.pending_selection = FALSE, !.candidates = EmptyDict]

select_clicked(s, key) ==
    [s EXCEPT !.history = Append(@, Message("assistant", Get(s.candidates, key))),
              !.pending_selection = FALSE, !.candidates = EmptyDict]

(* the role of the last entry not looked at *)
last_question_any_role(h) ==
    IF h # <<>> THEN h[Len(h)].content ELSE <<>>

(* last_q of the regenerate handler; None is the empty text, both are falsy *)
last_question(h) ==
    IF h # <<>> /\ h[Len(h)].role = "user" THEN h[Len(h)].content ELSE <<>>

regenerate_ok(s, r) ==
    LET g == generate_three_answers(r)
    IN  [s EXCEPT !.candidates = g.cands, !.last_usage = g.usage,
                  !.pending_selection = TRUE]

(* candidates.get("kr_short") or candidates.get("kr_long") or candidates.get("en") or "" *)
preview_of(c) ==
    IF Get(c, "kr_short") # <<>> THEN Get(c, "kr_short")
    ELSE IF Get(c, "kr_long") # <<>> THEN Get(c, "kr_long")
    ELSE Get(c, "en")

(* a pending CandidateSet kept instead of the new one *)
chat_input_ok_keeps_pending_set(s, q, r) ==
    LET g  == generate_three_answers(r)
        h1 == Append(s.history, Message("user", q))
        pv == preview_of(g.cands)
        h2 == IF s.auto_preview /\ pv # <<>>
              THEN Append(h1, Message("assistant", PreviewPrefix \o pv))
              ELSE h1
    IN  [s EXCEPT !.history = h2,
                  !.candidates = IF s.pending_selection THEN @ ELSE g.cands,
                  !.last_usage = g.usage, !.pending_selection = TRUE]

chat_input_ok(s, q, r) ==
    LET g  == generate_three_answers(r)
        h1 == Append(s.history, Message("user", q))
        pv == preview_of(g.cands)
        h2 == IF s.auto_preview /\ pv # <<>>
              THEN Append(h1, Message("assistant", PreviewPrefix \o pv))
              ELSE h1
    IN  [s EXCEPT !.history = h2, !.candidates = g.cands,
                  !.last_usage = g.usage, !.pending_selection = TRUE]

(* the except branch without its two assignments *)
chat_input_failed_keeps_candidates(s, q) ==
    [s EXCEPT !.history = Append(@, Message("user", q))]

chat_input_failed(s, q) ==
    [s EXCEPT !.history = Append(@, Message("user", q)),
              !.candidates = EmptyDict, !.pending_selection = FALSE]

-----------------------------------------------------------------------------
(* Inputs *)

KeyInputs == {<<>>, <<" ">>, <<"sk-">>}

Questions == {<<"a">>, <<"b">>}

Failures == {"http", "network", "other"}

Usages == {NoUsage, [present |-> TRUE, total_tokens |-> 1]}

ResponseTexts ==
    { <<KR_SHORT, "a", KR_LONG, "b", EN, "a", "b">>,
      <<KR_LONG, " ", "b">>,
      <<"b">>,
      <<" ">> }

Responses ==
    {[isNone |-> FALSE, content |-> t, usage |-> u] : t \in ResponseTexts, u \in Usages}
    \cup {NoResponse}

ParseInputs ==
    {[isNone |-> FALSE, content |-> t, usage |-> NoUsage] : t \in SeqsUpTo(Tokens, MaxLen)}
    \cup {NoResponse}

(* Record of the script run that produced the current state: the widget
   that fired, its argument, how the synthesis request ended, and what the
   session looked like when the widget fired. *)
StartOp ==
    [op |-> "start", label |-> "", question |-> <<>>, outcome |-> "",
     after_failure |-> FALSE, from_pending |-> FALSE, from_len |-> 0,
     superseded |-> FALSE]

Op(op, label, question, outcome) ==
    [op |-> op, label |-> label, question |-> question, outcome |-> outcome,
     after_failure |-> lastOp.op = "submit" /\ lastOp.outcome \in Failures,
     from_pending |-> ss.pending_selection,
     from_len |-> Len(ss.history),
     superseded |->
        IF outcome = "ok" THEN ss.pending_selection
        ELSE IF op = "reset" \/ (op = "submit" /\ outcome \in Failures) THEN FALSE
        ELSE lastOp.superseded]

-----------------------------------------------------------------------------
(* Actions: one script run per widget event *)

Init ==
    /\ ss = InitialSession
    /\ typed_key = <<>>
    /\ resp = NoResponse
    /\ parsed = EmptyDict
    /\ lastOp = StartOp

TypeKey ==
    \E k \in KeyInputs :
        /\ k # typed_key
        /\ typed_key' = k
        /\ lastOp' = Op("key", "", <<>>, "")
        /\ UNCHANGED <<ss, resp, parsed>>

ToggleAutoPreview ==
    /\ HasKey
    /\ ss' = toggle_changed(ss)
    /\ lastOp' = Op("toggle", "", <<>>, "")
    /\ UNCHANGED <<typed_key, resp, parsed>>

Reset ==
    /\ HasKey
    /\ ss' = reset_clicked(ss)
    /\ lastOp' = Op("reset", "", <<>>, "")
    /\ UNCHANGED <<typed_key, resp, parsed>>

Select ==
    \E key \in Labels :
        /\ HasKey
        /\ ShowCandidates(ss)
        /\ Len(ss.history) < MaxHistory
        /\ ss' = select_clicked(ss, key)
        /\ lastOp' = Op("select", key, <<>>, "")
        /\ UNCHANGED <<typed_key, resp, parsed>>

RegenerateOk ==
    \E r \in Responses :
        /\ HasKey
        /\ ShowCandidates(ss)
        /\ last_question(ss.history) # <<>>
        /\ ss' = regenerate_ok(ss, r)
        /\ resp' = r
        /\ parsed' = generate_three_answers(r).cands
        /\ lastOp' = Op("regenerate", "", last_question(ss.history), "ok")
        /\ UNCHANGED typed_key

RegenerateFailed ==
    \E f \in Failures :
        /\ HasKey
        /\ ShowCandidates(ss)
        /\ last_question(ss.history) # <<>>
        /\ lastOp' = Op("regenerate", "", last_question(ss.history), f)
        /\ UNCHANGED <<ss, typed_key, resp, parsed>>

RegenerateNoQuestion ==
    /\ HasKey
    /\ ShowCandidates(ss)
    /\ last_question(ss.history) = <<>>
    /\ lastOp' = Op("regenerate", "", <<>>, "norequest")
    /\ UNCHANGED <<ss, typed_key, resp, parsed>>

SubmitOk ==
    \E q \in Questions, r \in Responses :
        /\ HasKey
        /\ Len(chat_input_ok(ss, q, r).history) <= MaxHistory
        /\ ss' = chat_input_ok(ss, q, r)
        /\ resp' = r
        /\ parsed' = generate_three_answers(r).cands
        /\ lastOp' = Op("submit", "", q, "ok")
        /\ UNCHANGED typed_key

SubmitFailed ==
    \E q \in Questions, f \in Failures :
        /\ HasKey
        /\ Len(ss.history) < MaxHistory
        /\ ss' = chat_input_failed(ss, q)
        /\ lastOp' = Op("submit", "", q, f)
        /\ UNCHANGED <<typed_key, resp, parsed>>

Next ==
    \/ TypeKey
    \/ ToggleAutoPreview
    \/ Reset
    \/ Select
    \/ RegenerateOk
    \/ RegenerateFailed
    \/ RegenerateNoQuestion
    \/ SubmitOk
    \/ SubmitFailed

Spec == Init /\ [][Next]_vars

(* generate_three_answers applied to every bounded model output *)
InitParse ==
    /\ ss = InitialSession
    /\ typed_key = <<>>
    /\ resp \in ParseInputs
    /\ parsed = EmptyDict
    /\ lastOp = StartOp

Generate ==
    /\ lastOp.op = "start"
    /\ parsed' = generate_three_answers(resp).cands
    /\ lastOp' = Op("generate", "", <<>>, "ok")
    /\ UNCHANGED <<ss, typed_key, resp>>

NextParse == Generate

SpecParse == InitParse /\ [][NextParse]_vars

TypeOK ==
    /\ Len(ss.history) <= MaxHistory
    /\ \A i \in 1..Len(ss.history) : ss.history[i].role \in {"user", "assistant"}
    /\ DOMAIN ss.candidates \in {{}, Labels}
    /\ ss.pending_selection \in BOOLEAN
    /\ ss.auto_preview \in BOOLEAN

-----------------------------------------------------------------------------
(* Vocabulary of the properties *)

IsPrefix(a, b) == Len(a) <= Len(b) /\ SubSeq(b, 1, Len(a)) = a

LastMessage(h) == h[Len(h)]

(* a CandidateSet has been returned by generate_three_answers *)
Parsed == DOMAIN parsed = Labels

(* the text the model returned, None read as the empty text *)
Content == IF resp.isNone THEN <<>> ELSE resp.content

(* position of the first occurrence of a marker, 0 when it is absent *)
FirstIndex(s, label) ==
    IF \E i \in 1..Len(s) : s[i] = label
    THEN CHOOSE i \in 1..Len(s) : s[i] = label /\ \A j \in 1..(i - 1) : s[j] # label
    ELSE 0

(* s without its surrounding whitespace, by positions *)
Trimmed(s) ==
    LET keep == {i \in 1..Len(s) : s[i] \notin Whitespace}
    IN  IF keep = {} THEN <<>>
        ELSE LET lo == CHOOSE i \in keep : \A j \in keep : i <= j
                 hi == CHOOSE i \in keep : \A j \in keep : j <= i
             IN  SubSeq(s, lo, hi)

(* all three markers occur and their first occurrences are in template order *)
MarkersInOrder(s) ==
    /\ 0 < FirstIndex(s, KR_SHORT)
    /\ FirstIndex(s, KR_SHORT) < FirstIndex(s, KR_LONG)
    /\ FirstIndex(s, KR_LONG) < FirstIndex(s, EN)

Between(s, from, to) == Trimmed(SubSeq(s, FirstIndex(s, from) + 1, FirstIndex(s, to) - 1))

ToEnd(s, from) == Trimmed(SubSeq(s, FirstIndex(s, from) + 1, Len(s)))

MissingSomeMarker(s) == \E m \in Markers : FirstIndex(s, m) = 0

MissingEveryMarker(s) == \A m \in Markers : FirstIndex(s, m) = 0

Blank(s) == \A i \in 1..Len(s) : s[i] \in Whitespace

-----------------------------------------------------------------------------
(* Selection *)

(* C1: a selection made while the candidate section is shown appends exactly
   one assistant message whose content is the stored candidate text of the
   selected label, keeps every earlier entry, and leaves candidates = {} and
   pending_selection = False. *)
C1_SelectAppendsChosenText ==
    [][\A key \in Labels :
          lastOp'.op = "select" /\ lastOp'.label = key =>
              /\ ShowCandidates(ss)
              /\ ss'.history = Append(ss.history, Message("assistant", ss.candidates[key]))
              /\ ss'.candidates = EmptyDict
              /\ ss'.pending_selection = FALSE]_vars

C1_Witness ==
    /\ lastOp.op = "select"
    /\ lastOp.label = "en"
    /\ lastOp.from_pending
    /\ Len(ss.history) = lastOp.from_len + 1
    /\ LastMessage(ss.history) = Message("assistant", <<"a", "b">>)
    /\ ~ss.pending_selection

(* C2: whatever the session was before, after the reset handler the
   history is empty, candidates = {} and pending_selection = False. *)
C2_ResetClearsSession ==
    lastOp.op = "reset" =>
        /\ ss.history = <<>>
        /\ ss.candidates = EmptyDict
        /\ ss.pending_selection = FALSE

C2_Witness ==
    /\ lastOp.op = "reset"
    /\ lastOp.from_pending
    /\ lastOp.from_len >= 2
    /\ ss.history = <<>>

(* C3: the session holds no CandidateSet other than the one most recently
   returned by generate_three_answers: while a selection is pending the
   stored candidates are that set, otherwise none are stored, and the
   message a selection appended is a text of that set. *)
C3_OnlyLatestCandidateSet ==
    /\ ss.pending_selection => ss.candidates = parsed
    /\ ~ss.pending_selection => ss.candidates = EmptyDict
    /\ lastOp.op = "select" =>
           LastMessage(ss.history).content = parsed[lastOp.label]

C3_Witness ==
    /\ lastOp.op = "select"
    /\ lastOp.superseded
    /\ LastMessage(ss.history).content = parsed[lastOp.label]

(* C4: pending_selection is true exactly when a populated CandidateSet is
   stored and the candidate section offers the selection buttons. *)
C4_PendingIffCandidatesOffered ==
    ss.pending_selection <=>
        (DOMAIN ss.candidates = Labels /\ AnyValue(ss.candidates) /\ ShowCandidates(ss))

(* C5: a question whose synthesis fails adds the user message and nothing
   else to the history and leaves candidates = {} and pending_selection =
   False; the input is still rendered afterwards, and the next question
   that is answered is processed as any answered question. *)
C5_FailedTurnKeepsSessionUsable ==
    /\ [](lastOp.op = "submit" /\ lastOp.outcome \in Failures => HasKey)
    /\ [][lastOp'.op = "submit" /\ lastOp'.outcome \in Failures =>
             /\ ss'.history = Append(ss.history, Message("user", lastOp'.question))
             /\ ss'.candidates = EmptyDict
             /\ ss'.pending_selection = FALSE]_vars
    /\ [][lastOp'.op = "submit" /\ lastOp'.outcome = "ok" /\ lastOp'.after_failure =>
             /\ IsPrefix(Append(ss.history, Message("user", lastOp'.question)), ss'.history)
             /\ \A i \in (Len(ss.history) + 2)..Len(ss'.history) :
                    ss'.history[i].role = "assistant"
             /\ Len(ss'.history) <= Len(ss.history) + 2
             /\ ss'.candidates = parsed'
             /\ Parsed'
             /\ ss'.pending_selection = TRUE]_vars

C5_Witness ==
    /\ lastOp.op = "submit"
    /\ lastOp.outcome = "ok"
    /\ lastOp.after_failure
    /\ Len(ss.history) >= 3
    /\ ss.history[Len(ss.history) - 2].role = "user"
    /\ ss.history[Len(ss.history) - 1].role = "user"
    /\ ShowCandidates(ss)

(* C9: every script run other than the reset keeps the previous history as
   a prefix of the new history. *)
C9_HistoryAppendOnly ==
    [][lastOp'.op # "reset" => IsPrefix(ss.history, ss'.history)]_vars

C9_Witness ==
    /\ lastOp.op = "select"
    /\ Len(ss.history) >= 3
    /\ ss.history[Len(ss.history) - 1].content = PreviewPrefix \o <<"a">>

(* C10: the regenerate handler never changes the history and leaves
   pending_selection True; it sends a request only when the last history
   entry is a user message; when the request succeeds only candidates and
   last_usage are replaced; when it fails or is not sent the session is
   unchanged. *)
C10_RegenerateFrame ==
    [][lastOp'.op = "regenerate" =>
          /\ ss.pending_selection
          /\ ss'.history = ss.history
          /\ ss'.pending_selection = TRUE
          /\ lastOp'.outcome # "norequest" => LastMessage(ss.history).role = "user"
          /\ LastMessage(ss.history).role = "assistant" =>
                 lastOp'.outcome = "norequest" /\ resp' = resp
          /\ lastOp'.outcome = "ok" =>
                 ss' = [ss EXCEPT !.candidates = parsed', !.last_usage = resp'.usage]
          /\ lastOp'.outcome # "ok" => ss' = ss]_vars

C10_Witness ==
    /\ lastOp.op = "regenerate"
    /\ lastOp.outcome = "ok"
    /\ LastMessage(ss.history).role = "user"
    /\ ss.candidates = parsed
    /\ ss.last_usage.present
    /\ ss.pending_selection

-----------------------------------------------------------------------------
(* Splitting *)

(* C6: when the output holds the three markers in template order, each label
   gets the text between its marker and the next one (the end of the text
   for the last), without surrounding whitespace. *)
C6_SplitsBetweenMarkers ==
    Parsed /\ MarkersInOrder(Content) =>
        /\ parsed["kr_short"] = Between(Content, KR_SHORT, KR_LONG)
        /\ parsed["kr_long"] = Between(Content, KR_LONG, EN)
        /\ parsed["en"] = ToEnd(Content, EN)

(* C7: when the output lacks one or more markers, kr_short is the full text
   and kr_long and en are empty texts. *)
C7_MissingMarkerGivesFullText ==
    Parsed /\ MissingSomeMarker(Content) =>
        /\ parsed["kr_short"] = Trimmed(Content)
        /\ parsed["kr_long"] = <<>>
        /\ parsed["en"] = <<>>

(* C7 as amended: when the output holds none of the markers, kr_short is the
   full text without surrounding whitespace and kr_long and en are empty
   texts. *)
C7_NoMarkerGivesFullText ==
    Parsed /\ MissingEveryMarker(Content) =>
        /\ parsed["kr_short"] = Trimmed(Content)
        /\ parsed["kr_long"] = <<>>
        /\ parsed["en"] = <<>>

C7_Witness ==
    /\ Parsed
    /\ MissingEveryMarker(Content)
    /\ Content = <<" ", "a", " ", "b", " ">>
    /\ parsed["kr_short"] = <<"a", " ", "b">>

(* C8: when the output is empty, whitespace only or None, kr_short holds a
   non-empty fallback message and kr_long and en are empty texts. *)
C8_BlankOutputGivesFallback ==
    Parsed /\ Blank(Content) =>
        /\ parsed["kr_short"] # <<>>
        /\ parsed["kr_long"] = <<>>
        /\ parsed["en"] = <<>>

====
